---- MODULE Spec2Model ----
(***************************************************************************)
(* canvas-flappy-bird: the Game state machine (class Game) and the Bird    *)
(* entity, as a state machine over the browser's events: the prepare()     *)
(* call, primary actions (key, click, gamepad button), window resizes and  *)
(* the frame callbacks the loop schedules for itself.                      *)
(*                                                                         *)
(* Every method of Game and Bird is an operator from the game object (a    *)
(* record g holding the fields of Game and of the objects it owns) to the  *)
(* game object after the call; an event handler is one action that applies *)
(* the whole synchronous call chain the handler runs.                      *)
(*                                                                         *)
(* Time is the clock Date.now() reads, in milliseconds.  The clock moves   *)
(* in whole seconds, so (now - lastUpdate) / 1000 is exact in integers.    *)
(* Lengths are whole pixels; a centre x + width / 2 is kept doubled        *)
(* (2 * x + width) wherever the code halves.                               *)
(***************************************************************************)
EXTENDS Integers, Sequences, FiniteSets, TLC

\* ---------------------------------------------------------------- bounds
\* The clock stops at MaxSeconds seconds; at most MaxPending loop callbacks
\* are ever outstanding (a resize that would schedule one more is not taken).
MaxSeconds == 5
MaxPending == 2

\* ------------------------------------------------ configuration (Config)
BirdStartX == 0
BirdWidth == 2
BirdHeight == 2
FlapSpeed == 2
Gravitation == 1
TubeSpeed == 1
TubeWidth == 2
BorderOffset == 1
SpaceMin == 5
SpaceMax == 5
MinDistance == 1
MaxDistance == 2
LevelUpAcceleration == 1
CanvasWidth == 3
CanvasHeight == 8
BackgroundSpeed == 1
BackgroundWidth == 1
BackgroundHeight == 1

\* The value of a field that holds null or undefined.
NULL == -1

STATES == {"LOADING", "IDLE", "PLAYING", "GAME_OVER"}

\* Milliseconds a frame callback runs after the handler before it, and
\* milliseconds a resize handler runs after the handler before it.
FrameElapsed == {1000, 2000}
ResizeElapsed == {0, 1000}

\* Client sizes <<clientWidth, clientHeight>> the canvas element can take.
ClientSizes == {<<3, 8>>, <<3, 2>>}

\* What localStorage holds under 'highScore' when the page loads.
StoredHighScores == {NULL, 1}

\* Math.random() draws of one TubesDriver.update, as the end of the
\* range each lands on (0: the minimum, 1: the maximum).
Draws == [dist : {0, 1}, space : {0}, offset : {0, 1}]

VARIABLES
    currentState,   \* Game._currentState
    lastUpdate,     \* Game._lastUpdate (NULL before the first start())
    score,          \* Game._score (NULL before the first reset())
    level,          \* Game._level
    highScore,      \* Game._highScore (NULL before prepare())
    storage,        \* localStorage['highScore']
    canvas,         \* the canvas element: client size and width/height
    scene,          \* Game._scene: exists, width, height
    bird,           \* Game._bird: exists, y, _fallingSpeed
    tubes,          \* TubesDriver's alive pairs, ascending x
    backgrounds,    \* the Background tiles alive in the scene, in creation order
    hung,           \* a handler entered a loop that never ends
    driverSpeed,    \* TubesDriver's speed for future pairs
    pending,        \* loop callbacks handed to requestAnimationFrame, not yet run
    overlay,        \* what the draw surface shows
    now,            \* the clock Date.now() reads
    prepared,       \* 0: constructed, 1: prepare() awaits its resources, 2: prepare() done
    op,             \* history: the handler that ran last
    calls,          \* history: the calls the last handler made, in order
    delta,          \* history: the delta the last _loop passed to _update
    gameOvers       \* history: gameOver() calls since the last start()

vars == <<currentState, lastUpdate, score, level, highScore, storage, canvas,
          scene, bird, tubes, backgrounds, hung, driverSpeed, pending, overlay,
          now, prepared, op, calls, delta, gameOvers>>

\* The game object: the variables as one record.
Game == [currentState |-> currentState, lastUpdate |-> lastUpdate,
         score |-> score, level |-> level, highScore |-> highScore,
         storage |-> storage, canvas |-> canvas, scene |-> scene,
         bird |-> bird, tubes |-> tubes, backgrounds |-> backgrounds,
         hung |-> hung, driverSpeed |-> driverSpeed,
         pending |-> pending, overlay |-> overlay, now |-> now,
         prepared |-> prepared, op |-> op, calls |-> calls,
         delta |-> delta, gameOvers |-> gameOvers]

\* The variables after a handler left the game object as g.
Becomes(g) ==
    /\ currentState' = g.currentState
    /\ lastUpdate' = g.lastUpdate
    /\ score' = g.score
    /\ level' = g.level
    /\ highScore' = g.highScore
    /\ storage' = g.storage
    /\ canvas' = g.canvas
    /\ scene' = g.scene
    /\ bird' = g.bird
    /\ tubes' = g.tubes
    /\ backgrounds' = g.backgrounds
    /\ hung' = g.hung
    /\ driverSpeed' = g.driverSpeed
    /\ pending' = g.pending
    /\ overlay' = g.overlay
    /\ now' = g.now
    /\ prepared' = g.prepared
    /\ op' = g.op
    /\ calls' = g.calls
    /\ delta' = g.delta
    /\ gameOvers' = g.gameOvers

\* History: the handler records that it called c.
Called(g, c) == [g EXCEPT !.calls = Append(@, c)]

\* ------------------------------------------------------------ the overlay
\* What a component draws on the cleared surface: the state's text with the
\* score and high score it was given (NULL where it shows none).
Drawn(kind, s, h) == [kind |-> kind, score |-> s, highScore |-> h]

\* ------------------------------------------------------------ TubesDriver
\* A draw of Math.random() scaled to [lo, hi], at the end u of the range.
Rand(lo, hi, u) == IF u = 0 THEN lo ELSE hi

\* A pair spawned at x: its gap of random size at a random offset that keeps
\* borderOffset to both edges of the scene, moving at the driver's speed.
\* scored is history: how often _updateScore counted this pair.
NewTube(g, x) ==
    LET space == Rand(SpaceMin, SpaceMax, g.random.space)
    IN [x |-> x,
        gapY |-> Rand(BorderOffset, g.scene.height - BorderOffset - space,
                      g.random.offset),
        space |-> space,
        speed |-> g.driverSpeed,
        scored |-> 0]

\* The spawn step: while the rightmost pair starts left of the scene's right
\* edge, one more pair a random distance behind it (the first at the edge).
RECURSIVE Spawn(_, _)
Spawn(g, ts) ==
    IF ts = <<>>
    THEN Spawn(g, <<NewTube(g, g.scene.width)>>)
    ELSE LET last == ts[Len(ts)]
         IN IF last.x < g.scene.width
            THEN Spawn(g, Append(ts, NewTube(g,
                     last.x + TubeWidth
                     + Rand(MinDistance, MaxDistance, g.random.dist))))
            ELSE ts

\* TubesDriver.update(): pairs scrolled past the left edge are dropped, then
\* the spawn step.
TubesDriver_update(g) ==
    LET alive == SelectSeq(g.tubes, LAMBDA t : t.x + TubeWidth >= 0)
    IN [g EXCEPT !.tubes = Spawn(g, alive)]

\* TubesDriver.getTubes({from, to}): the indexes, ascending in x, of the alive
\* pairs whose span [x, x + width] meets [from, to] (both given doubled).
getTubes(g, from2, to2) ==
    LET hit(i) == 2 * g.tubes[i].x <= to2
                  /\ 2 * (g.tubes[i].x + TubeWidth) >= from2
        RECURSIVE scan(_)
        scan(i) == IF i > Len(g.tubes) THEN <<>>
                   ELSE IF hit(i) THEN <<i>> \o scan(i + 1) ELSE scan(i + 1)
    IN scan(1)

\* TubesDriver.increaseSpeed(delta): added to every alive pair's speed and to
\* the speed of the pairs to come.
TubesDriver_increaseSpeed(g, acc) ==
    [g EXCEPT !.driverSpeed = @ + acc,
              !.tubes = [i \in 1..Len(g.tubes) |->
                            [g.tubes[i] EXCEPT !.speed = @ + acc]]]

\* ----------------------------------------------------------- PhysicsEngine
\* PhysicsEngine.update(entity, delta): semi-implicit Euler.
PhysicsEngine_update(b, d) ==
    LET v == b.fallingSpeed + Gravitation * d
    IN [b EXCEPT !.fallingSpeed = v, !.y = @ + v * d]

\* RectCollisionEngine: the bird's rectangle meets the upper or the lower
\* rectangle of the pair t (boundaries inclusive).
Intersects(b, t, sceneHeight) ==
    /\ BirdStartX <= t.x + TubeWidth
    /\ t.x <= BirdStartX + BirdWidth
    /\ \/ b.y <= t.gapY
       \/ b.y + BirdHeight >= t.gapY + t.space /\ b.y <= sceneHeight

\* ------------------------------------------------------------------- Game
RECURSIVE _changeState(_, _)

gameOver(g) ==
    _changeState([Called(g, "gameOver") EXCEPT !.gameOvers = @ + 1],
                 "GAME_OVER")

\* ------------------------------------------------------------------- Bird
\* Bird.update without the clamp of lines 20-22.
Bird_clamp_none(g) == g

\* Bird.update, lines 20-22: the bird does not leave through the top.
Bird_clamp(g) == IF g.bird.y < 0 THEN [g EXCEPT !.bird.y = 0] ELSE g

\* Bird.update, lines 24-27: touching the floor ends the game.
Bird_floor(g) ==
    IF g.bird.y + BirdHeight >= g.scene.height
    THEN gameOver(Called(g, "dieSound"))
    ELSE g

Bird_update(g, d) ==
    Bird_floor(Bird_clamp([g EXCEPT !.bird = PhysicsEngine_update(g.bird, d)]))

\* Bird.collide(entity), entity a Tube.
Bird_collide(g) == gameOver(Called(g, "hitSound"))

\* Bird.flap as an impulse added to the fall velocity instead of replacing it.
Bird_flap_adds(g) ==
    Called([g EXCEPT !.bird.fallingSpeed = @ - FlapSpeed], "flapSound")

Bird_flap(g) ==
    Called([g EXCEPT !.bird.fallingSpeed = -FlapSpeed], "flapSound")

\* ------------------------------------------------------------------ Scene
\* The collision engine's pass: collide is called on the bird once for each
\* pair its rectangle meets.
RECURSIVE CollideAll(_, _)
CollideAll(g, i) ==
    IF i > Len(g.tubes) THEN g
    ELSE CollideAll(IF Intersects(g.bird, g.tubes[i], g.scene.height)
                    THEN Bird_collide(g)
                    ELSE g,
                    i + 1)

\* Tube.update(delta) on every pair: it scrolls left by its speed.
Tubes_update(g, d) ==
    [g EXCEPT !.tubes = [i \in 1..Len(g.tubes) |->
                            [g.tubes[i] EXCEPT !.x = @ - g.tubes[i].speed * d]]]

\* Background.update(delta) on every tile: it scrolls left by its speed.
Backgrounds_update(g, d) ==
    [g EXCEPT !.backgrounds = [i \in 1..Len(g.backgrounds) |->
          [g.backgrounds[i] EXCEPT !.x = @ - g.backgrounds[i].speed * d]]]

\* Scene.update(delta): every entity's update, then the collision engine.
Scene_update(g, d) ==
    CollideAll(Bird_update(Tubes_update(Backgrounds_update(g, d), d), d), 1)

\* ------------------------------------------------------------------- Game
_increaseLevel(g) ==
    TubesDriver_increaseSpeed(
        Called([g EXCEPT !.level = @ + 1,
                         !.tubes = [i \in 1..Len(g.tubes) |->
                             [g.tubes[i] EXCEPT !.speed = @ + LevelUpAcceleration]],
                         !.backgrounds = [i \in 1..Len(g.backgrounds) |->
                             [g.backgrounds[i]
                                 EXCEPT !.speed = @ + LevelUpAcceleration]]],
               "_increaseLevel"),
        LevelUpAcceleration)

\* The scoring step with the level raised only once the score is past
\* 10 * (level + 1).
_updateScore_point_late(g, i) ==
    IF g.score + 1 > 10 * (g.level + 1)
    THEN _increaseLevel(Called([g EXCEPT !.score = @ + 1,
                                         !.tubes[i].scored = @ + 1],
                               "pointSound"))
    ELSE Called([g EXCEPT !.score = @ + 1, !.tubes[i].scored = @ + 1],
                "pointSound")

\* _updateScore, lines 313-320: the crossing pair (the i-th) scores.
_updateScore_point(g, i) ==
    IF g.score + 1 >= 10 * (g.level + 1)
    THEN _increaseLevel(Called([g EXCEPT !.score = @ + 1,
                                         !.tubes[i].scored = @ + 1],
                               "pointSound"))
    ELSE Called([g EXCEPT !.score = @ + 1, !.tubes[i].scored = @ + 1],
                "pointSound")

\* _updateScore with both ends of the threshold window exclusive.
_updateScore_strict(g, d) ==
    LET birdCenter2 == 2 * BirdStartX + BirdWidth
        crossing == getTubes(g, birdCenter2, birdCenter2)
    IN IF crossing = <<>>
       THEN g
       ELSE LET crossingTube == g.tubes[crossing[1]]
                tubeCenter2 == 2 * crossingTube.x + TubeWidth
                threshold == (TubeSpeed + LevelUpAcceleration * g.level) * d
            IN IF /\ tubeCenter2 + threshold > birdCenter2
                  /\ tubeCenter2 - threshold < birdCenter2
               THEN _updateScore_point(g, crossing[1])
               ELSE g

_updateScore(g, d) ==
    LET birdCenter2 == 2 * BirdStartX + BirdWidth
        crossing == getTubes(g, birdCenter2, birdCenter2)
    IN IF crossing = <<>>
       THEN g
       ELSE LET crossingTube == g.tubes[crossing[1]]
                tubeCenter2 == 2 * crossingTube.x + TubeWidth
                threshold == (TubeSpeed + LevelUpAcceleration * g.level) * d
            IN IF /\ tubeCenter2 + threshold >= birdCenter2
                  /\ tubeCenter2 - threshold <= birdCenter2
               THEN _updateScore_point(g, crossing[1])
               ELSE g

\* The high-score step saving also a score that only equals the high score.
_update_highScore_equal(g) ==
    IF g.score >= g.highScore
    THEN Called([g EXCEPT !.highScore = g.score, !.storage = g.score], "save")
    ELSE g

\* _update, lines 330-333: a score above the high score is the new high score,
\* saved at once.
_update_highScore(g) ==
    IF g.score > g.highScore
    THEN Called([g EXCEPT !.highScore = g.score, !.storage = g.score], "save")
    ELSE g

_update(g, d) ==
    _update_highScore(
        _updateScore(
            Scene_update(TubesDriver_update(Called(g, "_update")), d), d))

_draw(g) == Called([g EXCEPT !.overlay = Drawn("SCENE", g.score, NULL)], "_draw")

\* The end of _loop without its test of the state: it always draws and
\* schedules the next tick.
_loop_reschedule_always(g, now_) ==
    [Called(_draw(g), "requestAnimationFrame")
        EXCEPT !.lastUpdate = now_, !.pending = @ + 1]

\* _loop, lines 363-368, now_ the clock _loop read before the update.
_loop_reschedule(g, now_) ==
    IF g.currentState = "PLAYING"
    THEN [Called(_draw(g), "requestAnimationFrame")
             EXCEPT !.lastUpdate = now_, !.pending = @ + 1]
    ELSE g

\* Date.now() reads the clock; a null _lastUpdate subtracts as 0.
_loop(g) ==
    LET now_ == g.now
        d == (now_ - (IF g.lastUpdate = NULL THEN 0 ELSE g.lastUpdate)) \div 1000
    IN _loop_reschedule(_update([Called(g, "_loop") EXCEPT !.delta = d], d), now_)

\* _changeState, lines 202-229: the handler of the state entered.
_changeState_handler(g, state) ==
    CASE state = "PLAYING" -> _loop(g)
      [] state = "LOADING" ->
             [g EXCEPT !.overlay = Drawn("LOADING", NULL, NULL)]
      [] state = "IDLE" ->
             [g EXCEPT !.overlay = Drawn("IDLE", g.score, g.highScore)]
      [] state = "GAME_OVER" ->
             [g EXCEPT !.overlay = Drawn("GAME_OVER", g.score, g.highScore)]

_changeState(g, state) ==
    _changeState_handler([g EXCEPT !.overlay = Drawn("CLEAR", NULL, NULL),
                                   !.currentState = state],
                         state)

\* new Background(...) at x: the tile keeps the x it was created at, joins
\* the scene's live entities and is pushed on Game._backgrounds (tracked).
NewBackground(g, x) ==
    [x |-> x, initialX |-> x,
     width |-> (g.scene.height * BackgroundWidth) \div BackgroundHeight,
     speed |-> BackgroundSpeed,
     tracked |-> TRUE]

\* _generateBackgrounds, lines 119-140: the while loop, last the tile pushed
\* last (<<>> for null).  A tile of width 0 puts every further tile at the
\* same x, so the loop's test never changes and the call does not return.
RECURSIVE _generateBackgrounds_loop(_, _)
_generateBackgrounds_loop(g, last) ==
    IF last # <<>> /\ ~(last[1].initialX < g.scene.width)
    THEN g
    ELSE IF last # <<>> /\ last[1].width = 0
    THEN [g EXCEPT !.hung = TRUE]
    ELSE LET x == IF last = <<>> THEN 0 ELSE last[1].x + last[1].width
             background == NewBackground(g, x)
         IN _generateBackgrounds_loop(
                [g EXCEPT !.backgrounds = Append(@, background)],
                <<background>>)

\* _generateBackgrounds(): delete() takes every tile of Game._backgrounds out
\* of the scene, then the loop.  (The deleted tiles stay in the list, where
\* only the next call's delete() meets them again; they are left out here.)
_generateBackgrounds(g) ==
    _generateBackgrounds_loop(
        Called([g EXCEPT !.backgrounds = SelectSeq(@, LAMBDA t : ~t.tracked)],
               "_generateBackgrounds"),
        <<>>)

\* _resize, line 40, reached when _generateBackgrounds returned.
_resize_redraw(g) == IF g.hung THEN g ELSE _changeState(g, g.currentState)

\* _resize(): this._scene is undefined until the first reset(), and
\* this._scene.resize then throws a TypeError that ends the handler.
_resize(g) ==
    LET width == g.canvas.clientWidth
        height == g.canvas.clientHeight
        g1 == [Called(g, "_resize") EXCEPT !.canvas.width = width,
                                           !.canvas.height = height]
    IN IF ~g1.scene.exists
       THEN Called(g1, "TypeError")
       ELSE _resize_redraw(_generateBackgrounds(
                [g1 EXCEPT !.scene.width = width, !.scene.height = height]))

\* _configureScene(): a new Scene, without entities.
_configureScene(g) ==
    [g EXCEPT !.scene = [exists |-> TRUE, width |-> CanvasWidth,
                         height |-> CanvasHeight],
              !.backgrounds = <<>>]

\* _createEntities, lines 78-111: a new TubesDriver without pairs and a new
\* Bird at mid-height, not falling.
_createEntities_driver_bird(g) ==
    IF g.hung THEN g
    ELSE [g EXCEPT !.tubes = <<>>,
                   !.driverSpeed = TubeSpeed,
                   !.bird = [exists |-> TRUE,
                             y |-> g.scene.height \div 2 - BirdHeight \div 2,
                             fallingSpeed |-> 0]]

\* _createEntities(): Game._backgrounds becomes a new empty list (the tiles
\* it held stay in the scene), then _generateBackgrounds and the rest.
_createEntities(g) ==
    IF g.hung THEN g
    ELSE _createEntities_driver_bird(_generateBackgrounds(
             [g EXCEPT !.backgrounds = [i \in 1..Len(g.backgrounds) |->
                           [g.backgrounds[i] EXCEPT !.tracked = FALSE]]]))

\* reset() without its two assignments to the score and the level.
reset_keeps_score(g) ==
    _createEntities(_resize(_configureScene(
        _changeState(Called(g, "reset"), "IDLE"))))

reset(g) ==
    _createEntities(_resize(_configureScene(
        [_changeState(Called(g, "reset"), "IDLE")
            EXCEPT !.score = 0, !.level = 0])))

\* start, lines 374-378, after reset().
start_loop(g) ==
    IF g.hung THEN g
    ELSE _changeState([Called(g, "swooshingSound") EXCEPT !.lastUpdate = g.now],
                      "PLAYING")

start(g) == start_loop(reset([Called(g, "start") EXCEPT !.gameOvers = 0]))

\* _handleAction with LOADING dispatched to start() like IDLE.
_handleAction_loading_starts(g) ==
    CASE g.currentState \in {"LOADING", "IDLE", "GAME_OVER"} -> start(g)
      [] g.currentState = "PLAYING" -> Bird_flap(g)

_handleAction(g) ==
    CASE g.currentState = "LOADING" -> g
      [] g.currentState \in {"IDLE", "GAME_OVER"} -> start(g)
      [] g.currentState = "PLAYING" -> Bird_flap(g)

\* prepare() up to its first await: parseInt(load('highScore'), 10) || 0.
prepare_begin(g) ==
    _changeState([g EXCEPT !.highScore = IF g.storage = NULL THEN 0 ELSE g.storage,
                           !.prepared = 1],
                 "LOADING")

\* prepare() after its resources resolved.
prepare_end(g) == reset([g EXCEPT !.prepared = 2])

\* ----------------------------------------------------------- the handlers
\* The game object as a handler named h finds it, e milliseconds after the
\* handler before it, with the draws r its Math.random() calls will make.
Entering(h, e, r) ==
    [Game EXCEPT !.now = @ + e, !.op = h, !.calls = <<>>] @@ [random |-> r]

\* The game as its constructor leaves it, in a page whose canvas has one of
\* the client sizes.
InitSized(sizes) ==
    /\ currentState = "LOADING"
    /\ lastUpdate = NULL
    /\ score = NULL
    /\ level = NULL
    /\ highScore = NULL
    /\ storage \in StoredHighScores
    /\ \E c \in sizes :
          canvas = [clientWidth |-> c[1], clientHeight |-> c[2],
                    width |-> CanvasWidth, height |-> CanvasHeight]
    /\ scene = [exists |-> FALSE, width |-> 0, height |-> 0]
    /\ bird = [exists |-> FALSE, y |-> 0, fallingSpeed |-> 0]
    /\ tubes = <<>>
    /\ backgrounds = <<>>
    /\ hung = FALSE
    /\ driverSpeed = NULL
    /\ pending = 0
    /\ overlay = Drawn("CLEAR", NULL, NULL)
    /\ now = 0
    /\ prepared = 0
    /\ op = "constructor"
    /\ calls = <<>>
    /\ delta = NULL
    /\ gameOvers = 0

Init == InitSized(ClientSizes)

\* The page's script calls prepare().
PrepareBegin ==
    /\ ~hung
    /\ prepared = 0
    /\ Becomes(prepare_begin(Entering("prepare", 0, CHOOSE r \in Draws : TRUE)))

\* The resources have loaded and prepare() resumes.
PrepareEnd ==
    /\ ~hung
    /\ prepared = 1
    /\ Becomes(prepare_end(Entering("prepare", 0, CHOOSE r \in Draws : TRUE)))

\* An input engine reports the primary action.
Action(r) ==
    /\ ~hung
    /\ r \in Draws
    /\ Becomes(_handleAction(Entering("_handleAction", 0, r)))

\* The window takes the client size c and the resize listener runs, while
\* the clock is within limit seconds.
ResizeWithin(limit, c, e, r) ==
    /\ ~hung
    /\ now + e <= limit * 1000
    /\ currentState = "PLAYING" => pending < MaxPending
    /\ Becomes(_resize([Entering("_resize", e, r)
                         EXCEPT !.canvas.clientWidth = c[1],
                                !.canvas.clientHeight = c[2]]))

\* A callback handed to requestAnimationFrame runs _loop.
FrameAnytime(e, r) ==
    /\ ~hung
    /\ pending > 0
    /\ Becomes(_loop([Entering("_loop", e, r) EXCEPT !.pending = @ - 1]))

\* The same while the clock is within limit seconds.
FrameWithin(limit, e, r) ==
    /\ now + e <= limit * 1000
    /\ FrameAnytime(e, r)

Frame(e, r) == FrameWithin(MaxSeconds, e, r)

Resize(c, e, r) == ResizeWithin(MaxSeconds, c, e, r)

Next ==
    \/ PrepareBegin
    \/ PrepareEnd
    \/ \E r \in Draws : Action(r)
    \/ \E c \in ClientSizes, e \in ResizeElapsed, r \in Draws : Resize(c, e, r)
    \/ \E e \in FrameElapsed, r \in Draws : Frame(e, r)

Spec == Init /\ [][Next]_vars

\* ------------------------------------------------- one long play session
\* The same game left alone by the window: no resize, the page opened at the
\* full client size with nothing stored, and a clock that runs long enough
\* for the level to go up.
MaxLevelSeconds == 16

InitLevel ==
    /\ Init
    /\ storage = NULL
    /\ canvas.clientHeight = CanvasHeight

NextLevel ==
    \/ PrepareBegin
    \/ PrepareEnd
    \/ \E r \in Draws : Action(r)
    \/ \E e \in FrameElapsed, r \in Draws : FrameWithin(MaxLevelSeconds, e, r)

SpecLevel == InitLevel /\ [][NextLevel]_vars

\* ------------------------------------ the long session, resized late
\* The long session with a window that is resized once the level has gone
\* up.
ResizeAtLevel(c, e, r) ==
    /\ level # NULL
    /\ level >= 1
    /\ ResizeWithin(MaxLevelSeconds, c, e, r)

NextLevelResize ==
    \/ NextLevel
    \/ \E c \in ClientSizes, e \in ResizeElapsed, r \in Draws :
          ResizeAtLevel(c, e, r)

SpecLevelResize == InitLevel /\ [][NextLevelResize]_vars

\* --------------------------------------------- a window of any size
\* The game in a window that can also be collapsed to height 0 or width 0,
\* for the first MaxTilingSeconds seconds.
MaxTilingSeconds == 2

ClientSizesAll == ClientSizes \cup {<<3, 0>>, <<0, 8>>, <<0, 0>>}

InitTiling == InitSized(ClientSizesAll)

NextTiling ==
    \/ PrepareBegin
    \/ PrepareEnd
    \/ \E r \in Draws : Action(r)
    \/ \E c \in ClientSizesAll, e \in ResizeElapsed, r \in Draws :
          ResizeWithin(MaxTilingSeconds, c, e, r)
    \/ \E e \in FrameElapsed, r \in Draws : FrameWithin(MaxTilingSeconds, e, r)

SpecTiling == InitTiling /\ [][NextTiling]_vars

\* --------------------------------------------- a player who stops acting
\* The player and the window act during the first MaxActSeconds seconds
\* only; frame callbacks are delivered as long as one is outstanding, and
\* every outstanding callback is delivered in the end.
MaxActSeconds == 2

Acting == now < MaxActSeconds * 1000

NextLive ==
    \/ PrepareBegin
    \/ PrepareEnd
    \/ \E r \in Draws : Acting /\ Action(r)
    \/ \E c \in ClientSizes, e \in ResizeElapsed, r \in Draws :
          Acting /\ ResizeWithin(MaxActSeconds, c, e, r)
    \/ \E e \in FrameElapsed, r \in Draws : FrameAnytime(e, r)

\* The steps of NextLive that deliver a frame callback: the only ones that
\* run _loop, and each of them advances the clock.
FrameDelivered ==
    /\ ~hung
    /\ pending > 0
    /\ op' = "_loop"
    /\ \E e \in FrameElapsed : now' = now + e

SpecLive ==
    /\ Init
    /\ [][NextLive]_vars
    /\ WF_<<now, op>>(FrameDelivered)

\* ------------------------------------------------- Bird.update on its own
\* One Bird.update(delta) on a bird anywhere above the floor of the
\* configured scene, with any fall velocity up to MaxBirdSpeed either way.
MaxBirdSpeed == 6

BirdDeltas == {0, 1, 2}

InitBird ==
    /\ currentState = "PLAYING"
    /\ lastUpdate = 0
    /\ score = 0
    /\ level = 0
    /\ highScore = 0
    /\ storage = NULL
    /\ canvas = [clientWidth |-> CanvasWidth, clientHeight |-> CanvasHeight,
                 width |-> CanvasWidth, height |-> CanvasHeight]
    /\ scene = [exists |-> TRUE, width |-> CanvasWidth, height |-> CanvasHeight]
    /\ bird \in [exists : {TRUE},
                  y : 0..(CanvasHeight - BirdHeight - 1),
                  fallingSpeed : (-MaxBirdSpeed)..MaxBirdSpeed]
    /\ tubes = <<>>
    /\ backgrounds = <<>>
    /\ hung = FALSE
    /\ driverSpeed = TubeSpeed
    /\ pending = 1
    /\ overlay = Drawn("SCENE", 0, NULL)
    /\ now = 0
    /\ prepared = 2
    /\ op = "start"
    /\ calls = <<>>
    /\ delta = 0
    /\ gameOvers = 0

\* Scene.update calls the bird's update(d).
BirdUpdate(d) ==
    /\ op = "start"
    /\ Becomes(Bird_update([Entering("Bird.update", 0, CHOOSE r \in Draws : TRUE)
                               EXCEPT !.delta = d], d))

NextBird == \E d \in BirdDeltas : BirdUpdate(d)

SpecBird == InitBird /\ [][NextBird]_vars

\* ================================================================ claims
\* The last handler called c.
HasCall(cs, c) == \E i \in 1..Len(cs) : cs[i] = c

\* How often the last handler called c.
CallCount(cs, c) == Cardinality({i \in 1..Len(cs) : cs[i] = c})

\* The fields of the game a primary action in LOADING or a flap leaves alone.
progress == <<currentState, score, level, highScore, storage, lastUpdate,
              pending, tubes, driverSpeed, scene, canvas, overlay, now>>

\* ------------------------------------------------------------------- C1
\* What _handleAction does in LOADING and in PLAYING: nothing in LOADING;
\* in PLAYING the bird's fall velocity becomes -flapSpeed and nothing else
\* of the game changes.
C1_NoOpAndFlap ==
    /\ currentState = "LOADING" => UNCHANGED <<progress, bird>>
    /\ currentState = "PLAYING" =>
          /\ bird' = [bird EXCEPT !.fallingSpeed = -FlapSpeed]
          /\ UNCHANGED progress

\* C1 as stated: one primary action is a no-op in LOADING, runs start() and
\* leaves the machine in PLAYING from IDLE and from GAME_OVER, and in PLAYING
\* only sets the bird's fall velocity to -flapSpeed.
C1_ActionAsStated ==
    [][op' = "_handleAction" =>
          /\ C1_NoOpAndFlap
          /\ currentState \in {"IDLE", "GAME_OVER"} =>
                HasCall(calls', "start") /\ currentState' = "PLAYING"]_vars

\* C1 amended: from IDLE and from GAME_OVER the action runs start(), which
\* leaves the machine in PLAYING unless the tick start() itself runs called
\* gameOver(), and then in GAME_OVER; LOADING and PLAYING as stated.
C1_Action ==
    [][op' = "_handleAction" =>
          /\ C1_NoOpAndFlap
          /\ currentState \in {"IDLE", "GAME_OVER"} =>
                /\ HasCall(calls', "start")
                /\ HasCall(calls', "_loop")
                /\ currentState' = IF gameOvers' = 0 THEN "PLAYING"
                                                     ELSE "GAME_OVER"]_vars

\* A primary action ran start() and the session ended inside it.
C1_Witness ==
    /\ op = "_handleAction"
    /\ HasCall(calls, "start")
    /\ currentState = "GAME_OVER"
    /\ gameOvers = 1

\* ------------------------------------------------------------------- C2
\* C2 as stated: at most one loop callback is outstanding at any time, and
\* none while the state is not PLAYING.
C2_SingleLoop ==
    /\ pending <= 1
    /\ currentState # "PLAYING" => pending = 0

\* ------------------------------------------------------------------- C3
\* C3 as stated: a resize leaves state, score, level, high score, last-update
\* timestamp, bird and the number of outstanding callbacks as they were, and
\* runs no _update.
C3_ResizeKeepsProgress ==
    [][op' = "_resize" =>
          /\ UNCHANGED <<currentState, score, level, highScore, lastUpdate,
                         bird, pending>>
          /\ ~HasCall(calls', "_update")]_vars

\* ------------------------------------------------------------------- C4
\* C4 as stated: between handlers the state changes only along
\* LOADING -> IDLE, IDLE -> PLAYING, PLAYING -> GAME_OVER, GAME_OVER -> PLAYING.
C4_TransitionsAsStated ==
    [][currentState' # currentState =>
          <<currentState, currentState'>> \in
              {<<"LOADING", "IDLE">>, <<"IDLE", "PLAYING">>,
               <<"PLAYING", "GAME_OVER">>, <<"GAME_OVER", "PLAYING">>}]_vars

\* C4 amended: the same four changes, and IDLE -> GAME_OVER by a start()
\* whose own tick ended the session; LOADING is left once (by prepare) and
\* never re-entered, and IDLE is entered from LOADING only.
C4_Transitions ==
    [][currentState' # currentState =>
          \/ <<currentState, currentState'>> \in
                {<<"IDLE", "PLAYING">>, <<"PLAYING", "GAME_OVER">>,
                 <<"GAME_OVER", "PLAYING">>}
          \/ /\ <<currentState, currentState'>> = <<"LOADING", "IDLE">>
             /\ op' = "prepare"
          \/ /\ <<currentState, currentState'>> = <<"IDLE", "GAME_OVER">>
             /\ op' = "_handleAction"
             /\ HasCall(calls', "start")
             /\ gameOvers' > 0]_vars

\* The first start() went from IDLE to GAME_OVER inside one handler.
C4_Witness ==
    /\ currentState = "GAME_OVER"
    /\ op = "_handleAction"
    /\ lastUpdate = now
    /\ score = 0
    /\ gameOvers = 1

\* ------------------------------------------------------------------- C5
\* C5: a frame callback's tick calls _update once with
\* delta = (now - lastUpdate) / 1000 and then, exactly when the state is
\* PLAYING after the update, draws the scene, sets lastUpdate to now and
\* schedules one next tick; otherwise it draws no scene, keeps lastUpdate
\* and schedules nothing.
C5_Tick ==
    [][op' = "_loop" =>
          /\ CallCount(calls', "_update") = 1
          /\ delta' * 1000 = now' - lastUpdate
          /\ IF currentState' = "PLAYING"
             THEN /\ CallCount(calls', "_draw") = 1
                  /\ overlay'.kind = "SCENE"
                  /\ lastUpdate' = now'
                  /\ CallCount(calls', "requestAnimationFrame") = 1
                  /\ pending' = (pending - 1) + 1
             ELSE /\ ~HasCall(calls', "_draw")
                  /\ overlay'.kind # "SCENE"
                  /\ lastUpdate' = lastUpdate
                  /\ ~HasCall(calls', "requestAnimationFrame")
                  /\ pending' = pending - 1]_vars

\* A tick whose update ended the session: nothing drawn, nothing scheduled.
C5_Witness ==
    /\ op = "_loop"
    /\ currentState = "GAME_OVER"
    /\ HasCall(calls, "gameOver")
    /\ lastUpdate < now
    /\ pending = 0

\* ------------------------------------------------------------------- C6
\* C6 as stated: gameOver() is called at most once between one start() and
\* the next.
C6_GameOverOnce == gameOvers <= 1

\* ------------------------------------------------------------------- C7
\* C7 as stated: once the state is GAME_OVER, score, level and high score do
\* not change until the next start(), and the GAME_OVER overlay shows the
\* score and high score the game holds.
C7_Frozen ==
    [][/\ currentState = "GAME_OVER" /\ ~HasCall(calls', "start") =>
             UNCHANGED <<score, level, highScore, storage>>
       /\ currentState' = "GAME_OVER" =>
             /\ overlay'.kind = "GAME_OVER"
             /\ overlay'.score = score'
             /\ overlay'.highScore = highScore'
             /\ storage' \in {NULL, highScore'}]_vars

\* ------------------------------------------------------------------- C8
\* C8 as stated: while PLAYING every pair is counted at most once, and a
\* pair whose centre has reached or passed the bird's centre was counted.
C8_ScoredOnce ==
    currentState = "PLAYING" =>
        \A i \in 1..Len(tubes) :
            /\ tubes[i].scored <= 1
            /\ 2 * tubes[i].x + TubeWidth <= 2 * BirdStartX + BirdWidth =>
                  tubes[i].scored = 1

\* ------------------------------------------------------------------- C9
Abs(n) == IF n < 0 THEN -n ELSE n

\* C9: in a handler that runs an _update, _updateScore adds 1 to the score
\* exactly when some alive pair spans the bird's centre with its own centre
\* within threshold / 2 of it, threshold = (baseSpeed +
\* levelUpAcceleration * level) * delta, both ends inclusive, and adds
\* nothing otherwise; with no pair over the bird's centre score and level
\* stay.  (A handler that ran reset() first starts from score 0, level 0.)
C9_OnePoint ==
    [][HasCall(calls', "_update") =>
          LET score0 == IF HasCall(calls', "reset") THEN 0 ELSE score
              level0 == IF HasCall(calls', "reset") THEN 0 ELSE level
              birdCenter2 == 2 * BirdStartX + BirdWidth
              threshold == (TubeSpeed + LevelUpAcceleration * level0) * delta'
              spans(t) == 2 * t.x <= birdCenter2
                          /\ birdCenter2 <= 2 * (t.x + TubeWidth)
              near(t) == Abs((2 * t.x + TubeWidth) - birdCenter2) <= threshold
              crossed == \E i \in 1..Len(tubes') :
                            spans(tubes'[i]) /\ near(tubes'[i])
          IN /\ score' = score0 + (IF crossed THEN 1 ELSE 0)
             /\ (\A i \in 1..Len(tubes') : ~spans(tubes'[i])) =>
                   score' = score0 /\ level' = level0
             /\ ~HasCall(calls', "TypeError")]_vars

\* A tick at level 1 that counted a pair.
C9_Witness ==
    /\ op = "_loop"
    /\ HasCall(calls, "pointSound")
    /\ level = 1
    /\ score > 10

\* ------------------------------------------------------------------ C10
\* C10: once reset() has run, 10 * level <= score < 10 * (level + 1) after
\* every handler; the level changes only to 0 (in reset) or by exactly 1,
\* in the update whose point brought the score to 10 * (level + 1).
C10_LevelOfScore ==
    [][/\ score' # NULL => 10 * level' <= score' /\ score' < 10 * (level' + 1)
       /\ level' # level =>
             \/ HasCall(calls', "reset") /\ level' = 0
             \/ /\ level' = level + 1
                /\ score' = score + 1
                /\ score' = 10 * (level + 1)
                /\ CallCount(calls', "_increaseLevel") = 1]_vars

\* The tick that brought the score to 10 raised the level to 1.
C10_Witness ==
    /\ HasCall(calls, "_increaseLevel")
    /\ score = 10
    /\ level = 1

\* ------------------------------------------------------------------ C11
\* C11 as stated: at any time of a session every alive pair's speed is
\* baseSpeed + levelUpAcceleration * level (each level-up added the
\* acceleration once), and every alive background tile's speed is
\* backgroundSpeed + levelUpAcceleration * level, also after a resize.
C11_SpeedsFollowLevel ==
    level # NULL =>
        /\ \A i \in 1..Len(tubes) :
              tubes[i].speed = TubeSpeed + LevelUpAcceleration * level
        /\ \A i \in 1..Len(backgrounds) :
              backgrounds[i].speed = BackgroundSpeed + LevelUpAcceleration * level

\* ------------------------------------------------------------------ C12
\* C12: score and level become 0 only in a handler that ran reset(); a
\* handler that ran start() entered PLAYING with score 0 and level 0 (its
\* score is the number of points its own tick counted); a handler that ran
\* no reset() lowers neither score nor level.
C12_ZeroedByReset ==
    [][/\ score' = 0 /\ score # 0 => HasCall(calls', "reset")
       /\ level' = 0 /\ level # 0 => HasCall(calls', "reset")
       /\ HasCall(calls', "start") =>
             /\ score' = CallCount(calls', "pointSound")
             /\ level' = 0
       /\ ~HasCall(calls', "reset") => score' >= score /\ level' >= level]_vars

\* A new session started after a session that had scored 2.
C12_Witness ==
    /\ op = "_handleAction"
    /\ HasCall(calls, "start")
    /\ currentState = "PLAYING"
    /\ score = 0
    /\ level = 0
    /\ highScore = 2

\* ------------------------------------------------------------------ C13
\* C13: once prepare() has read the stored value, the high score never
\* decreases; a handler that ran an _update leaves it >= the score and saved
\* it exactly when the score of that update exceeded it, the stored value
\* then being the high score and the score; a handler that ran no _update
\* (reset() in prepare included) and the reset() of start() leave the high
\* score and the stored value as they were.
C13_HighScore ==
    [][prepared >= 1 =>
          /\ highScore' >= highScore
          /\ IF HasCall(calls', "_update")
             THEN /\ highScore' >= score'
                  /\ HasCall(calls', "save") <=> score' > highScore
                  /\ CallCount(calls', "save") <= 1
                  /\ IF HasCall(calls', "save")
                     THEN storage' = highScore' /\ highScore' = score'
                     ELSE UNCHANGED <<highScore, storage>>
             ELSE /\ UNCHANGED <<highScore, storage>>
                  /\ ~HasCall(calls', "save")]_vars

\* A tick saved the high score 2 over the stored 1.
C13_Witness ==
    /\ HasCall(calls, "save")
    /\ highScore = 2
    /\ storage = 2
    /\ score = 2

\* ------------------------------------------------------------------ C14
\* C14: a handler that finds the state LOADING (primary actions, resizes and
\* prepare() itself, up to and including its reset()) runs no _loop and no
\* _update and schedules no callback; no callback is outstanding and no
\* last-update timestamp is set when it ends.
C14_NoLoopWhileLoading ==
    [][currentState = "LOADING" =>
          /\ ~HasCall(calls', "_loop")
          /\ ~HasCall(calls', "_update")
          /\ ~HasCall(calls', "requestAnimationFrame")
          /\ pending' = 0
          /\ lastUpdate' = NULL]_vars

\* A primary action arrived while prepare() awaited its resources.
C14_Witness ==
    /\ op = "_handleAction"
    /\ currentState = "LOADING"
    /\ prepared = 1
    /\ calls = <<>>

\* ------------------------------------------------------------------ C15
\* C15 as stated: every execution of _loop finds a last-update timestamp
\* that is not null and was set in the running session, by its start()
\* (delta 0 in the tick start() runs itself) or by a tick of it: a frame
\* callback or a resize runs _loop only on a game that is PLAYING, so that
\* the delta spans no time spent in IDLE or GAME_OVER.
C15_FreshDelta ==
    [][HasCall(calls', "_loop") =>
          /\ delta' # NULL
          /\ IF op' = "_handleAction"
             THEN HasCall(calls', "start") /\ delta' = 0
             ELSE lastUpdate # NULL /\ currentState = "PLAYING"]_vars

\* ------------------------------------------------------------------ C16
\* C16: after Bird.update(delta), for any delta >= 0 and any fall velocity,
\* the bird's y is >= 0 (the y the physics step gave, or 0 where that was
\* negative), and gameOver() was called in that update if (and only if)
\* y + height >= the scene's height after the clamp.
C16_ClampAndFloor ==
    [][op' = "Bird.update" =>
          LET v == bird.fallingSpeed + Gravitation * delta'
              y == bird.y + v * delta'
          IN /\ bird'.y >= 0
             /\ bird'.y = IF y < 0 THEN 0 ELSE y
             /\ bird'.fallingSpeed = v
             /\ bird'.y + BirdHeight >= scene'.height <=>
                   HasCall(calls', "gameOver")
             /\ HasCall(calls', "gameOver") =>
                   currentState' = "GAME_OVER" /\ gameOvers' = 1]_vars

\* An update clamped the bird: it moved up by 6 or more from a y of 5 at most.
C16_Witness ==
    /\ op = "Bird.update"
    /\ bird.y = 0
    /\ bird.fallingSpeed * delta <= -6
    /\ currentState = "PLAYING"

\* ------------------------------------------------------------------ C17
\* C17 as stated: the background tiles alive in the scene are the ones
\* Game._backgrounds holds (the next _generateBackgrounds deletes them all),
\* no two of them were created at the same x, and they form one gap-free
\* tiling: each was created where the one before it ended.
C17_TilesTracked ==
    /\ \A i \in 1..Len(backgrounds) : backgrounds[i].tracked
    /\ \A i, j \in 1..Len(backgrounds) :
          i # j => backgrounds[i].initialX # backgrounds[j].initialX
    /\ \A i \in 1..(Len(backgrounds) - 1) :
          backgrounds[i + 1].initialX
              = backgrounds[i].initialX + backgrounds[i].width

\* ------------------------------------------------------------------ C18
\* The tiles Game._backgrounds tracks, in creation order.
Tracked == SelectSeq(backgrounds, LAMBDA t : t.tracked)

\* The tiling the last _generateBackgrounds built: the first tile created
\* at x = 0, each next one where the one before it ended, the last one
\* ending at or beyond the scene's right edge.
TilingCovers ==
    /\ Tracked # <<>>
    /\ Tracked[1].initialX = 0
    /\ \A i \in 1..(Len(Tracked) - 1) :
          Tracked[i + 1].initialX = Tracked[i].initialX + Tracked[i].width
    /\ Tracked[Len(Tracked)].initialX + Tracked[Len(Tracked)].width
          >= scene.width

\* C18 as stated: for every client size a resize can deliver, height 0
\* included, _generateBackgrounds returns, and the tiles it built are
\* adjacent from x = 0 and cover [0, scene width].
C18_TilingTerminates ==
    /\ ~hung
    /\ HasCall(calls, "_generateBackgrounds") => TilingCovers

\* ------------------------------------------------------------------ C19
\* C19 as stated: the resize handler completes without an error in every
\* state, LOADING before the first reset() included, leaves the state as it
\* was and has drawn that state's overlay (the scene in PLAYING).
C19_ResizeHandled ==
    [][op' = "_resize" =>
          /\ ~HasCall(calls', "TypeError")
          /\ currentState' = currentState
          /\ overlay'.kind = IF currentState = "PLAYING" THEN "SCENE"
                                                         ELSE currentState]_vars

\* ------------------------------------------------------------------ C20
\* From a PLAYING state after which neither a primary action nor a resize
\* occurs, with the frame callbacks delivered and every delta > 0, the state
\* becomes GAME_OVER and in the end stays GAME_OVER with no callback
\* outstanding.
C20_EndsInTheEnd ==
    (currentState = "PLAYING" /\ ~Acting)
        ~> [](currentState = "GAME_OVER" /\ pending = 0)

\* The tick that ends such a session leaves no callback outstanding, so no
\* tick runs after it.
C20_NoTickAfterwards ==
    [][(currentState = "PLAYING" /\ ~Acting /\ currentState' = "GAME_OVER")
          => pending' = 0]_vars

\* C20: every play session ends if the player stops acting: from any PLAYING
\* state after which no primary action and no resize occurs, with the frame
\* callbacks delivered and every delta > 0, the state becomes GAME_OVER and
\* the loop then stops for good, no further tick running until the next
\* start().
C20_SessionEnds ==
    /\ C20_EndsInTheEnd
    /\ C20_NoTickAfterwards
====
